---- MODULE Spec2Model ----
(***************************************************************************)
(* A model of libvirt_events.py, the salt engine that relays libvirt       *)
(* events to the salt event bus.                                            *)
(*                                                                          *)
(* Python values are encoded as follows.  A str is a TLA+ string, an int a  *)
(* TLA+ integer, a dict a function over its keys.  A value that nth()       *)
(* indexes is a record [t, s]: t is the Python type ("tuple", "str" or      *)
(* "dict") and s the sequence of its items (for a str, its characters).     *)
(* An attribute of the libvirt module is named by a string; the integer     *)
(* constant bound to attribute N is written [kind |-> "int", of |-> N].     *)
(***************************************************************************)
EXTENDS Integers, Sequences, FiniteSets, TLC

VARIABLES
    binding,        \* the attribute names the loaded libvirt module exposes
    filters,        \* start()'s filters argument, as the set of its entries
    objOrder,       \* the iteration order of the callbacks dict's two keys
    pc,             \* where start() is
    idx,            \* the next addCallback call of start(), by table position
    callbacks,      \* start()'s callbacks dict: obj -> entries, insertion order
    callbackIds,    \* start()'s callbackIds dict, keys in insertion order
    todo,           \* what the registration loop still has to visit
    cnx,            \* the connection: "none", "open" or "closed"
    atexitHandlers, \* the functions given to atexit.register, in order
    proc,           \* the process: "running", "exiting", "exited", "killed"
    exc,            \* the exception that left start(), "" if none
    ranHandlers,    \* the atexit handlers that have run, in order
    cleanupPos,     \* callbacksCleanup's position: <<key number, id number>>
    calls,          \* every call made on the connection, in order
    nextId,         \* the next handle the connection hands out
    firing,         \* a raw callback firing: the callback and its codes
    sent,           \* what the callback did: its exception, what it published
    cnxURI,         \* start()'s uri argument, which cnx.getURI() gives back
    tag_prefix,     \* start()'s tag_prefix argument
    delivered,      \* the firings the run loop has delivered, in order
    bus             \* the events handed to the salt event bus, in order

vars == <<binding, filters, objOrder, pc, idx, callbacks, callbackIds, todo,
          cnx, atexitHandlers, proc, exc, ranHandlers, cleanupPos, calls,
          nextId, firing, sent, cnxURI, tag_prefix, delivered, bus>>

startVars == <<binding, filters, objOrder, pc, idx, callbacks, callbackIds,
               todo, cnx, atexitHandlers, proc, exc, ranHandlers, cleanupPos,
               calls, nextId>>

\* start()'s arguments and the record of the run loop.
runVars == <<cnxURI, tag_prefix, delivered, bus>>

\* What no step of start() outside its run loop changes.
normVars == <<firing, sent, runVars>>

(***************************************************************************)
(* Bounds of the model.                                                     *)
(***************************************************************************)
\* Enumeration codes of a firing range over -MaxCode .. MaxCode (and 99).
MaxCode == 10
\* At most this many attributes are absent from the binding under Spec.
MaxMissing == 2
\* At most this many are absent under SpecActivate.
MaxMissingActivate == 1
\* The run loop delivers at most this many firings.
MaxFirings == 2

Codes == (-MaxCode .. MaxCode) \cup {99}

(***************************************************************************)
(* Python helpers.                                                          *)
(***************************************************************************)
Tuple(items) == [t |-> "tuple", s |-> items]
Str(chars) == [t |-> "str", s |-> chars]
EmptyDict == [t |-> "dict", s |-> << >>]

NoData == [k \in {} |-> ""]

\* A mutant of Update: the dict is replaced, not updated.
Replaced(d, e) == e

\* dict.update: the keys of e override those of d.
Update(d, e) ==
    [k \in (DOMAIN d) \cup (DOMAIN e) |-> IF k \in DOMAIN e THEN e[k] ELSE d[k]]

\* nth(stack, index, default): stack[index], default on IndexError only.
\* Python counts a negative index from the end; indexing a dict by a key it
\* lacks raises KeyError, which nth does not catch.
nth(stack, index, default) ==
    IF stack.t = "dict"
    THEN [exc |-> "KeyError", val |-> default]
    ELSE LET n == Len(stack.s) IN
         IF index >= 0 /\ index < n
         THEN [exc |-> "", val |-> stack.s[index + 1]]
         ELSE IF index < 0 /\ index >= -n
              THEN [exc |-> "", val |-> stack.s[n + index + 1]]
              ELSE [exc |-> "", val |-> default]

(***************************************************************************)
(* domain_events_map.  The last entry's details are ( "panicked" ), which   *)
(* Python reads as the str "panicked", not as a one-item tuple.             *)
(***************************************************************************)
domain_events_map ==
    Tuple(<<
      [name |-> "defined",
       details |-> Tuple(<<"added", "updated", "renamed", "from snapshot">>)],
      [name |-> "undefined",
       details |-> Tuple(<<"removed", "renamed">>)],
      [name |-> "started",
       details |-> Tuple(<<"booted", "migrated", "restored", "snapshot",
                           "wakeup">>)],
      [name |-> "suspended",
       details |-> Tuple(<<"paused", "migrated", "ioerror", "watchdog",
                           "restored", "snapshot", "api error", "postcopy",
                           "postcopy failed">>)],
      [name |-> "resumed",
       details |-> Tuple(<<"unpaused", "migrated", "snapshot", "postcopy">>)],
      [name |-> "stopped",
       details |-> Tuple(<<"shutdown", "destroyed", "crashed", "migrated",
                           "saved", "failed", "snapshot">>)],
      [name |-> "shutdown",
       details |-> Tuple(<<"finished", "on guest request",
                           "on host request">>)],
      [name |-> "pmsuspended",
       details |-> Tuple(<<"memory", "disk">>)],
      [name |-> "crashed",
       details |-> Str(<<"p", "a", "n", "i", "c", "k", "e", "d">>)]
    >>)

(***************************************************************************)
(* The table of start()'s addCallback calls, in the order start() makes     *)
(* them.  The block-job call passes the value it read from the binding, not *)
(* a name: its id is filled in by the block-job step.                       *)
(***************************************************************************)
CB(obj, event, id, callback) ==
    [obj |-> obj, event |-> event, id |-> id, callback |-> callback]

CallbackTable == <<
    CB("domain", "lifecycle", "VIR_DOMAIN_EVENT_ID_LIFECYCLE",
       "domainEventLifecycleCallback"),
    CB("domain", "reboot", "VIR_DOMAIN_EVENT_ID_REBOOT",
       "domainEventRebootCallback"),
    CB("domain", "rtcchange", "VIR_DOMAIN_EVENT_ID_RTC_CHANGE",
       "domainEventRTCChangeCallback"),
    CB("domain", "watchdog", "VIR_DOMAIN_EVENT_ID_WATCHDOG",
       "domainEventWatchdogCallback"),
    CB("domain", "graphics", "VIR_DOMAIN_EVENT_ID_GRAPHICS",
       "domainEventGraphicsCallback"),
    CB("domain", "ioerror", "VIR_DOMAIN_EVENT_ID_IO_ERROR_REASON",
       "domainEventIOErrorReasonCallback"),
    CB("domain", "control error", "VIR_DOMAIN_EVENT_ID_CONTROL_ERROR",
       "domainEventControlErrorCallback"),
    CB("domain", "disk change", "VIR_DOMAIN_EVENT_ID_DISK_CHANGE",
       "domainEventDiskChangeCallback"),
    CB("domain", "tray change", "VIR_DOMAIN_EVENT_ID_TRAY_CHANGE",
       "domainEventTrayChangeCallback"),
    CB("domain", "pmwakeup", "VIR_DOMAIN_EVENT_ID_PMWAKEUP",
       "domainEventPMWakeupCallback"),
    CB("domain", "pmsuspend", "VIR_DOMAIN_EVENT_ID_PMSUSPEND",
       "domainEventPMSuspendCallback"),
    CB("domain", "balloon change", "VIR_DOMAIN_EVENT_ID_BALLOON_CHANGE",
       "domainEventBalloonChangeCallback"),
    CB("domain", "pmsuspenddisk", "VIR_DOMAIN_EVENT_ID_PMSUSPEND_DISK",
       "domainEventPMSuspendDiskCallback"),
    CB("domain", "block job", "",
       "domainEventBlockJobCallback"),
    CB("domain", "device removed", "VIR_DOMAIN_EVENT_ID_DEVICE_REMOVED",
       "domainEventDeviceRemovedCallback"),
    CB("domain", "tunable", "VIR_DOMAIN_EVENT_ID_TUNABLE",
       "domainEventTunableCallback"),
    CB("domain", "agent lifecycle", "VIR_DOMAIN_EVENT_ID_AGENT_LIFECYCLE",
       "domainEventAgentLifecycleCallback"),
    CB("domain", "device added", "VIR_DOMAIN_EVENT_ID_DEVICE_ADDED",
       "domainEventDeviceAddedCallback"),
    CB("domain", "migration iteration",
       "VIR_DOMAIN_EVENT_ID_MIGRATION_ITERATION",
       "domainEventMigrationIteration"),
    CB("domain", "job completed", "VIR_DOMAIN_EVENT_ID_JOB_COMPLETED",
       "domainEventJobCompletedCallback"),
    CB("domain", "device removal failed",
       "VIR_DOMAIN_EVENT_ID_DEVICE_REMOVAL_FAILED",
       "domainEventDeviceRemovalFailedCallback"),
    CB("domain", "event metadata change",
       "VIR_DOMAIN_EVENT_ID_METADATA_CHANGE",
       "domainEventMetadataChangeCallback"),
    CB("domain", "block threshold", "VIR_DOMAIN_EVENT_ID_BLOCK_THRESHOLD",
       "domainEventBlockThresholdCallback"),
    CB("network", "lifecycle", "VIR_NETWORK_EVENT_ID_LIFECYCLE",
       "networkEventLifecycleCallback")
>>

NumCallbacks == Len(CallbackTable)

\* The position of the block-job call in the table.
BlockJobIndex == CHOOSE i \in 1 .. NumCallbacks : CallbackTable[i].event = "block job"

BLOCK_JOB == "VIR_DOMAIN_EVENT_ID_BLOCK_JOB"
BLOCK_JOB_2 == "VIR_DOMAIN_EVENT_ID_BLOCK_JOB_2"

\* Every attribute name start() looks up in the libvirt module.
AllIds ==
    {CallbackTable[i].id : i \in (1 .. NumCallbacks) \ {BlockJobIndex}}
        \cup {BLOCK_JOB, BLOCK_JOB_2}

(***************************************************************************)
(* URIs.  A URI is the sequence of its characters, so that urlparse, strip  *)
(* and join are computed as Python computes them.                           *)
(***************************************************************************)
RECURSIVE Flatten(_)
\* The str made of the characters of cs.
Flatten(cs) == IF cs = << >> THEN "" ELSE Head(cs) \o Flatten(Tail(cs))

Letters == {"a", "b", "c", "d", "e", "f", "g", "h", "i", "j", "k", "l", "m",
            "n", "o", "p", "q", "r", "s", "t", "u", "v", "w", "x", "y", "z"}
Digits == {"0", "1", "2", "3", "4", "5", "6", "7", "8", "9"}
SchemeChars == Letters \cup Digits \cup {"+", "-", "."}

\* The least position >= from of a character of cs that is in set, or
\* Len(cs) + 1 when there is none.
Find(cs, set, from) ==
    LET hits == {i \in from .. Len(cs) : cs[i] \in set} IN
    IF hits = {} THEN Len(cs) + 1
    ELSE CHOOSE i \in hits : \A j \in hits : i <= j

\* cs from position from to its end.
From(cs, from) == SubSeq(cs, from, Len(cs))

\* The scheme of url and what follows its colon.
SplitScheme(url) ==
    LET colon == Find(url, {":"}, 1) IN
    IF /\ colon <= Len(url)
       /\ colon > 1
       /\ url[1] \in Letters
       /\ \A i \in 1 .. colon - 1 : url[i] \in SchemeChars
    THEN [scheme |-> SubSeq(url, 1, colon - 1), rest |-> From(url, colon + 1)]
    ELSE [scheme |-> << >>, rest |-> url]

\* The netloc of a URI without its scheme, and what follows it.
SplitNetloc(rest) ==
    IF Len(rest) >= 2 /\ rest[1] = "/" /\ rest[2] = "/"
    THEN LET delim == Find(rest, {"/", "?", "#"}, 3) IN
         [netloc |-> SubSeq(rest, 3, delim - 1), rest |-> From(rest, delim)]
    ELSE [netloc |-> << >>, rest |-> rest]

\* cs up to the first character of set, that character left out.
Before(cs, set) == SubSeq(cs, 1, Find(cs, set, 1) - 1)

\* The position where the last segment of path begins.
LastSegment(path) ==
    LET slashes == {i \in 1 .. Len(path) : path[i] = "/"} IN
    IF slashes = {} THEN 1
    ELSE (CHOOSE i \in slashes : \A j \in slashes : j <= i) + 1

\* A path without the parameters of its last segment.
SplitParams(path) ==
    SubSeq(path, 1, Find(path, {";"}, LastSegment(path)) - 1)

\* urlparse(url), as far as start() reads it: scheme, netloc and path.
urlparse(url) ==
    LET s1 == SplitScheme(url) IN
    LET s2 == SplitNetloc(s1.rest) IN
    [scheme |-> s1.scheme,
     netloc |-> s2.netloc,
     path |-> SplitParams(Before(Before(s2.rest, {"#"}), {"?"}))]

RECURSIVE lstrip(_, _)
\* cs without its leading characters equal to c.
lstrip(cs, c) ==
    IF cs # << >> /\ Head(cs) = c THEN lstrip(Tail(cs), c) ELSE cs

RECURSIVE rstrip(_, _)
\* cs without its trailing characters equal to c.
rstrip(cs, c) ==
    IF cs # << >> /\ cs[Len(cs)] = c
    THEN rstrip(SubSeq(cs, 1, Len(cs) - 1), c) ELSE cs

\* A mutant of strip: the trailing characters are left in place.
stripLeading(cs, c) == lstrip(cs, c)

\* str.strip(c)
strip(cs, c) == rstrip(lstrip(cs, c), c)

RECURSIVE join(_, _)
\* sep.join(parts), parts a sequence of strs.
join(sep, parts) ==
    IF parts = << >> THEN ""
    ELSE IF Len(parts) = 1 THEN parts[1]
    ELSE parts[1] \o sep \o join(sep, Tail(parts))

Chars_qemu_system ==
    <<"q", "e", "m", "u", ":", "/", "/", "/", "s", "y", "s", "t", "e", "m">>

(***************************************************************************)
(* Publishing.  What a callback does is a record: exc is the exception it   *)
(* raised ("" if none) and pub the events it handed to the salt event bus.  *)
(***************************************************************************)
Raise(e) == [exc |-> e, pub |-> << >>]

\* saltSendEvent(opaque, conn, data); conn is the connection's URI.
saltSendEvent(opaque, conn, data) ==
    LET uri == urlparse(conn)
        path == strip(uri.path, "/")
        uri_tag == <<Flatten(uri.scheme)>>
                   \o (IF Len(uri.netloc) > 0 THEN <<Flatten(uri.netloc)>>
                       ELSE << >>)
                   \o (IF Len(path) > 0 THEN <<Flatten(path)>> ELSE << >>)
        uriStr == join("/", uri_tag)
        all_data == Update([uri |-> Flatten(conn)], data)
        tag == join("/", <<opaque.prefix, uriStr, opaque.object, opaque.event>>)
    IN [exc |-> "", pub |-> <<[tag |-> tag, data |-> all_data]>>]

\* saltSendDomainEvent(opaque, conn, dom, event, event_data)
saltSendDomainEvent(opaque, conn, dom, event, event_data) ==
    saltSendEvent(opaque, conn,
                  Update([domain |-> [name |-> dom.name, id |-> dom.id],
                          event |-> event],
                         event_data))

(***************************************************************************)
(* The callbacks.  Each takes the arguments libvirt passes it and gives     *)
(* what it did.  A lookup that raises ends the callback with that           *)
(* exception, before anything is published.                                 *)
(***************************************************************************)
domainEventLifecycleCallback(conn, dom, event, detail, opaque) ==
    LET found == nth(domain_events_map, event,
                     [name |-> "unknown", details |-> EmptyDict])
        eventStr == found.val.name
        details == found.val.details
        detailStr == nth(details, detail, "unknown")
    IN  IF found.exc # "" THEN Raise(found.exc) ELSE
        IF detailStr.exc # "" THEN Raise(detailStr.exc) ELSE
        saltSendDomainEvent(opaque, conn, dom, eventStr,
                            [detail |-> detailStr.val])

domainEventRebootCallback(conn, dom, opaque) ==
    saltSendDomainEvent(opaque, conn, dom, opaque.event, NoData)

domainEventRTCChangeCallback(conn, dom, utcoffset, opaque) ==
    saltSendDomainEvent(opaque, conn, dom, opaque.event, [utcoffset |-> utcoffset])

domainEventWatchdogCallback(conn, dom, action, opaque) ==
    LET actions == Tuple(<<"none", "pause", "reset", "poweroff", "shutdown", "debug", "inject NMI">>)
        actionStr == nth(actions, action, "unknown")
    IN  IF actionStr.exc # "" THEN Raise(actionStr.exc) ELSE
        saltSendDomainEvent(opaque, conn, dom, opaque.event,
            [action |-> actionStr.val])

domainEventIOErrorReasonCallback(conn, dom, srcpath, devalias, action, reason, opaque) ==
    LET actions == Tuple(<<"none", "pause", "report">>)
        actionStr == nth(actions, action, "unknown")
    IN  IF actionStr.exc # "" THEN Raise(actionStr.exc) ELSE
        saltSendDomainEvent(opaque, conn, dom, opaque.event,
            [srcPath |-> srcpath,
             devAlias |-> devalias,
             action |-> actionStr.val,
             reason |-> reason])

\* getAddress builds a dict from the address and then returns the address.
getAddress(addr) ==
    LET families == Tuple(<<"ipv4", "ipv6", "unix">>)
        family == nth(families, addr.family, "unknown")
        data == IF addr.service # "None"
                THEN [family |-> family.val, node |-> addr.node,
                      service |-> addr.service]
                ELSE [family |-> family.val, node |-> addr.node]
    IN  [exc |-> family.exc, val |-> addr]

domainEventGraphicsCallback(conn, dom, phase, localAddr, remoteAddr, authScheme, subject, opaque) ==
    LET phases == Tuple(<<"connect", "initialize", "disconnect">>)
        phaseStr == nth(phases, phase, "unknown")
        local == getAddress(localAddr)
        remote == getAddress(remoteAddr)
    IN  IF phaseStr.exc # "" THEN Raise(phaseStr.exc) ELSE
        IF local.exc # "" THEN Raise(local.exc) ELSE
        IF remote.exc # "" THEN Raise(remote.exc) ELSE
        saltSendDomainEvent(opaque, conn, dom, opaque.event,
            [phase |-> phaseStr.val,
             local |-> local.val,
             remote |-> remote.val,
             authScheme |-> authScheme,
             subject |-> [type |-> subject.type, name |-> subject.name]])

domainEventControlErrorCallback(conn, dom, opaque) ==
    saltSendDomainEvent(opaque, conn, dom, opaque.event, NoData)

domainEventDiskChangeCallback(conn, dom, oldSrcPath, newSrcPath, devAlias, reason, opaque) ==
    LET reasons == Tuple(<<"change missing on start", "drop missing on start">>)
        reasonStr == nth(reasons, reason, "unknown")
    IN  IF reasonStr.exc # "" THEN Raise(reasonStr.exc) ELSE
        saltSendDomainEvent(opaque, conn, dom, opaque.event,
            [oldSrcPath |-> oldSrcPath,
             newSrcPath |-> newSrcPath,
             devAlias |-> devAlias,
             reason |-> reasonStr.val])

domainEventTrayChangeCallback(conn, dom, devAlias, reason, opaque) ==
    LET reasons == Tuple(<<"open", "close">>)
        reasonStr == nth(reasons, reason, "unknown")
    IN  IF reasonStr.exc # "" THEN Raise(reasonStr.exc) ELSE
        saltSendDomainEvent(opaque, conn, dom, opaque.event,
            [devAlias |-> devAlias,
             reason |-> reasonStr.val])

domainEventPMWakeupCallback(conn, dom, reason, opaque) ==
    LET reasons == Tuple(<< >>)
        reasonStr == nth(reasons, reason, "unknown")
    IN  IF reasonStr.exc # "" THEN Raise(reasonStr.exc) ELSE
        saltSendDomainEvent(opaque, conn, dom, opaque.event,
            [reason |-> reasonStr.val])

domainEventPMSuspendCallback(conn, dom, reason, opaque) ==
    LET reasons == Tuple(<< >>)
        reasonStr == nth(reasons, reason, "unknown")
    IN  IF reasonStr.exc # "" THEN Raise(reasonStr.exc) ELSE
        saltSendDomainEvent(opaque, conn, dom, opaque.event,
            [reason |-> reasonStr.val])

domainEventBalloonChangeCallback(conn, dom, actual, opaque) ==
    saltSendDomainEvent(opaque, conn, dom, opaque.event, [actual |-> actual])

domainEventPMSuspendDiskCallback(conn, dom, reason, opaque) ==
    LET reasons == Tuple(<< >>)
        reasonStr == nth(reasons, reason, "unknown")
    IN  IF reasonStr.exc # "" THEN Raise(reasonStr.exc) ELSE
        saltSendDomainEvent(opaque, conn, dom, opaque.event,
            [reason |-> reasonStr.val])

domainEventBlockJobCallback(conn, dom, disk, job_type, status, opaque) ==
    LET types == Tuple(<<"unknown", "pull", "copy", "commit", "active commit">>)
        typeStr == nth(types, job_type, "unknown")
        statuses == Tuple(<<"completed", "failed", "canceled", "ready">>)
        statusStr == nth(statuses, status, "unknown")
    IN  IF typeStr.exc # "" THEN Raise(typeStr.exc) ELSE
        IF statusStr.exc # "" THEN Raise(statusStr.exc) ELSE
        saltSendDomainEvent(opaque, conn, dom, opaque.event,
            [disk |-> disk,
             type |-> typeStr.val,
             status |-> statusStr.val])

domainEventDeviceRemovedCallback(conn, dom, dev, opaque) ==
    saltSendDomainEvent(opaque, conn, dom, opaque.event, [dev |-> dev])

domainEventTunableCallback(conn, dom, params, opaque) ==
    saltSendDomainEvent(opaque, conn, dom, opaque.event, [params |-> params])

domainEventAgentLifecycleCallback(conn, dom, state, reason, opaque) ==
    LET states == Tuple(<<"connected", "disconnected">>)
        stateStr == nth(states, state, "unknown")
        reasons == Tuple(<<"unknown", "domain started", "channel">>)
        reasonStr == nth(reasons, reason, "unknown")
    IN  IF stateStr.exc # "" THEN Raise(stateStr.exc) ELSE
        IF reasonStr.exc # "" THEN Raise(reasonStr.exc) ELSE
        saltSendDomainEvent(opaque, conn, dom, opaque.event,
            [state |-> stateStr.val,
             reason |-> reasonStr.val])

domainEventDeviceAddedCallback(conn, dom, dev, opaque) ==
    saltSendDomainEvent(opaque, conn, dom, opaque.event, [dev |-> dev])

domainEventMigrationIteration(conn, dom, iteration, opaque) ==
    saltSendDomainEvent(opaque, conn, dom, opaque.event, [iteration |-> iteration])

domainEventJobCompletedCallback(conn, dom, params, opaque) ==
    saltSendDomainEvent(opaque, conn, dom, opaque.event, [params |-> params])

domainEventDeviceRemovalFailedCallback(conn, dom, dev, opaque) ==
    saltSendDomainEvent(opaque, conn, dom, opaque.event, [dev |-> dev])

domainEventMetadataChangeCallback(conn, dom, mtype, nsuri, opaque) ==
    LET types == Tuple(<<"description", "title", "element">>)
        typeStr == nth(types, mtype, "unknown")
    IN  IF typeStr.exc # "" THEN Raise(typeStr.exc) ELSE
        saltSendDomainEvent(opaque, conn, dom, opaque.event,
            [type |-> typeStr.val,
             nsuri |-> nsuri])

domainEventBlockThresholdCallback(conn, dom, dev, path, threshold, excess, opaque) ==
    saltSendDomainEvent(opaque, conn, dom, opaque.event, [dev |-> dev, path |-> path, threshold |-> threshold, excess |-> excess])

networkEventLifecycleCallback(conn, net, event, detail, opaque) ==
    LET events == Tuple(<<"defined", "undefined", "started", "stopped">>)
        details == Tuple(<<"added", "removed", "started", "stopped">>)
        eventStr == nth(events, event, "unknown")
        detailStr == nth(details, detail, "unknown")
    IN  IF eventStr.exc # "" THEN Raise(eventStr.exc) ELSE
        IF detailStr.exc # "" THEN Raise(detailStr.exc) ELSE
        saltSendEvent(opaque, conn,
            [network |-> net.name,
             event |-> eventStr.val,
             detail |-> detailStr.val])

(***************************************************************************)
(* A firing is libvirt calling the callback of table entry i with the       *)
(* opaque dict start() registered for it.  a and b are the firing's         *)
(* two numeric arguments (a alone when the callback takes one); the other   *)
(* arguments are fixed.  Python's None is written "None".                   *)
(***************************************************************************)
DefaultPrefix == "salt/engines/libvirt_events"

\* The opaque dict start() passes when it registers table entry i.
Opaque(prefix, obj, event_type) ==
    [prefix |-> prefix, object |-> obj, event |-> event_type]

TheDom == [name |-> "vm1", id |-> 7]
TheNet == [name |-> "net1"]
GraphicsAddr(family, service) ==
    [struct |-> "virDomainEventGraphicsAddress", family |-> family,
     node |-> "10.0.0.1", service |-> service]
TheSubject == [type |-> "x509dname", name |-> "CN=client"]

\* The call libvirt makes for a firing of a domain callback.
CallDomain(callback, conn, dom, a, b, opaque) ==
    CASE callback = "domainEventLifecycleCallback" ->
           domainEventLifecycleCallback(conn, dom, a, b, opaque)
      [] callback = "domainEventRebootCallback" ->
           domainEventRebootCallback(conn, dom, opaque)
      [] callback = "domainEventRTCChangeCallback" ->
           domainEventRTCChangeCallback(conn, dom, a, opaque)
      [] callback = "domainEventWatchdogCallback" ->
           domainEventWatchdogCallback(conn, dom, a, opaque)
      [] callback = "domainEventGraphicsCallback" ->
           domainEventGraphicsCallback(conn, dom, a,
               GraphicsAddr(b, "5900"), GraphicsAddr(b, "None"),
               "tls", TheSubject, opaque)
      [] callback = "domainEventIOErrorReasonCallback" ->
           domainEventIOErrorReasonCallback(conn, dom, "/img/a.qcow2",
               "virtio-disk0", a, "enospc", opaque)
      [] callback = "domainEventControlErrorCallback" ->
           domainEventControlErrorCallback(conn, dom, opaque)
      [] callback = "domainEventDiskChangeCallback" ->
           domainEventDiskChangeCallback(conn, dom, "/img/a.qcow2",
               "/img/b.qcow2", "virtio-disk0", a, opaque)
      [] callback = "domainEventTrayChangeCallback" ->
           domainEventTrayChangeCallback(conn, dom, "ide0-1-0", a, opaque)
      [] callback = "domainEventPMWakeupCallback" ->
           domainEventPMWakeupCallback(conn, dom, a, opaque)
      [] callback = "domainEventPMSuspendCallback" ->
           domainEventPMSuspendCallback(conn, dom, a, opaque)
      [] callback = "domainEventBalloonChangeCallback" ->
           domainEventBalloonChangeCallback(conn, dom, a, opaque)
      [] callback = "domainEventPMSuspendDiskCallback" ->
           domainEventPMSuspendDiskCallback(conn, dom, a, opaque)
      [] callback = "domainEventBlockJobCallback" ->
           domainEventBlockJobCallback(conn, dom, "vda", a, b, opaque)
      [] callback = "domainEventDeviceRemovedCallback" ->
           domainEventDeviceRemovedCallback(conn, dom, "net0", opaque)
      [] callback = "domainEventTunableCallback" ->
           domainEventTunableCallback(conn, dom, [cpu_shares |-> a], opaque)
      [] callback = "domainEventAgentLifecycleCallback" ->
           domainEventAgentLifecycleCallback(conn, dom, a, b, opaque)
      [] callback = "domainEventDeviceAddedCallback" ->
           domainEventDeviceAddedCallback(conn, dom, "net0", opaque)
      [] callback = "domainEventMigrationIteration" ->
           domainEventMigrationIteration(conn, dom, a, opaque)
      [] callback = "domainEventJobCompletedCallback" ->
           domainEventJobCompletedCallback(conn, dom, [time_elapsed |-> a],
                                           opaque)
      [] callback = "domainEventDeviceRemovalFailedCallback" ->
           domainEventDeviceRemovalFailedCallback(conn, dom, "net0", opaque)
      [] callback = "domainEventMetadataChangeCallback" ->
           domainEventMetadataChangeCallback(conn, dom, a, "http://ns/1",
                                             opaque)
      [] callback = "domainEventBlockThresholdCallback" ->
           domainEventBlockThresholdCallback(conn, dom, "vda", "/img/a.qcow2",
                                             a, b, opaque)

\* The call libvirt makes for a firing of a network callback.
CallNetwork(callback, conn, net, a, b, opaque) ==
    CASE callback = "networkEventLifecycleCallback" ->
           networkEventLifecycleCallback(conn, net, a, b, opaque)

NotFired == [fired |-> FALSE, exc |-> "", pub |-> << >>]

Done(result) == [fired |-> TRUE, exc |-> result.exc, pub |-> result.pub]

FiringOpaque == Opaque(tag_prefix, CallbackTable[firing.i].obj,
                       CallbackTable[firing.i].event)

\* libvirt fires a domain callback.
FireDomain ==
    /\ pc = "callback"
    /\ ~sent.fired
    /\ CallbackTable[firing.i].obj = "domain"
    /\ sent' = Done(CallDomain(CallbackTable[firing.i].callback,
                               cnxURI, TheDom,
                               firing.a, firing.b, FiringOpaque))
    /\ UNCHANGED <<startVars, firing, runVars>>

\* libvirt fires a network callback.
FireNetwork ==
    /\ pc = "callback"
    /\ ~sent.fired
    /\ CallbackTable[firing.i].obj = "network"
    /\ sent' = Done(CallNetwork(CallbackTable[firing.i].callback,
                                cnxURI, TheNet,
                                firing.a, firing.b, FiringOpaque))
    /\ UNCHANGED <<startVars, firing, runVars>>

\* start() is not running: the callbacks are called on their own.
NoStart ==
    /\ binding = AllIds
    /\ filters = {"all"}
    /\ objOrder = <<"domain", "network">>
    /\ pc = "callback"
    /\ idx = 1
    /\ callbacks = [domain |-> << >>, network |-> << >>]
    /\ callbackIds = << >>
    /\ todo = << >>
    /\ cnx = "open"
    /\ atexitHandlers = << >>
    /\ proc = "running"
    /\ exc = ""
    /\ ranHandlers = << >>
    /\ cleanupPos = <<1, 1>>
    /\ calls = << >>
    /\ nextId = 1

\* start()'s uri and tag_prefix arguments at their defaults, and nothing
\* delivered by the run loop yet.
DefaultArgs ==
    /\ cnxURI = Chars_qemu_system
    /\ tag_prefix = DefaultPrefix
    /\ delivered = << >>
    /\ bus = << >>

InitNorm ==
    /\ NoStart
    /\ DefaultArgs
    /\ firing \in [i : 1 .. NumCallbacks, a : Codes, b : Codes]
    /\ sent = NotFired

NextNorm == FireDomain \/ FireNetwork

\* The callbacks, each applied to every firing within the bounds.
SpecNorm == InitNorm /\ [][NextNorm]_vars

(***************************************************************************)
(* The connection URIs and prefixes the callbacks are tried on.  A part of  *)
(* a URI is given twice: c is its characters in the URI, s the str of it    *)
(* that is to appear in the topic.                                          *)
(***************************************************************************)
UriSchemes == {
    [c |-> <<"q", "e", "m", "u">>, s |-> "qemu"],
    [c |-> <<"q", "e", "m", "u", "+", "s", "s", "h">>, s |-> "qemu+ssh"] }
UriAuthorities == {
    [c |-> << >>, s |-> ""],
    [c |-> <<"h", "o", "s", "t">>, s |-> "host"],
    [c |-> <<"u", "s", "e", "r", "@", "h", "o", "s", "t", ":", "1", "2", "3", "4">>, s |-> "user@host:1234"] }
UriPaths == {
    [c |-> << >>, s |-> ""],
    [c |-> <<"/">>, s |-> ""],
    [c |-> <<"/", "s", "y", "s", "t", "e", "m">>, s |-> "system"],
    [c |-> <<"/", "s", "y", "s", "t", "e", "m", "/">>, s |-> "system"],
    [c |-> <<"/", "/", "v", "a", "r", "/", "l", "i", "b", "/", "/", "x", "/">>, s |-> "var/lib//x"] }
UriQueries == {
    [c |-> << >>, s |-> ""],
    [c |-> <<"?", "s", "o", "c", "k", "e", "t", "=", "/", "r", "u", "n", "/", "s">>, s |-> ""] }
UriParts ==
    [scheme : UriSchemes, authority : UriAuthorities, path : UriPaths,
     query : UriQueries]

\* The URI made of the parts p.
ComposeURI(p) ==
    p.scheme.c \o <<":", "/", "/">> \o p.authority.c \o p.path.c \o p.query.c

Prefixes == {DefaultPrefix, "libvirt"}

\* The callbacks called on their own, for every URI and prefix above.
InitTopic ==
    /\ NoStart
    /\ tag_prefix \in Prefixes
    /\ cnxURI \in {ComposeURI(p) : p \in UriParts}
    /\ delivered = << >>
    /\ bus = << >>
    /\ firing \in [i : 1 .. NumCallbacks, a : {0}, b : {0}]
    /\ sent = NotFired

SpecTopic == InitTopic /\ [][NextNorm]_vars

(***************************************************************************)
(* Properties of the callbacks, under SpecNorm.                             *)
(***************************************************************************)
FiredCallback == CallbackTable[firing.i].callback

\* The one event the firing published.
Published == sent.pub[1]

\* The lifecycle events and their details as libvirt documents them, by code.
DocumentedLifecycle == <<
    [name |-> "defined",
     details |-> <<"added", "updated", "renamed", "from snapshot">>],
    [name |-> "undefined", details |-> <<"removed", "renamed">>],
    [name |-> "started",
     details |-> <<"booted", "migrated", "restored", "snapshot", "wakeup">>],
    [name |-> "suspended",
     details |-> <<"paused", "migrated", "ioerror", "watchdog", "restored",
                   "snapshot", "api error", "postcopy", "postcopy failed">>],
    [name |-> "resumed",
     details |-> <<"unpaused", "migrated", "snapshot", "postcopy">>],
    [name |-> "stopped",
     details |-> <<"shutdown", "destroyed", "crashed", "migrated", "saved",
                   "failed", "snapshot">>],
    [name |-> "shutdown",
     details |-> <<"finished", "on guest request", "on host request">>],
    [name |-> "pmsuspended", details |-> <<"memory", "disk">>],
    [name |-> "crashed", details |-> <<"panicked">>]
>>

\* The firing is a lifecycle firing whose event code is one of 0..8.
KnownLifecycleEvent ==
    /\ FiredCallback = "domainEventLifecycleCallback"
    /\ firing.a \in 0 .. Len(DocumentedLifecycle) - 1

\* ... and whose detail code is valid for that event.
KnownLifecycleDetail ==
    /\ KnownLifecycleEvent
    /\ firing.b \in 0 .. Len(DocumentedLifecycle[firing.a + 1].details) - 1

\* C1: a lifecycle firing with an event code in 0..8 and a detail code valid
\* for that event publishes the documented event name and the documented
\* detail name; code 2 with detail 1 gives "started" and "migrated", code 8
\* with detail 0 gives "crashed" and "panicked".
C1_LifecycleNames ==
    (sent.fired /\ KnownLifecycleDetail) =>
        /\ sent.exc = ""
        /\ Len(sent.pub) = 1
        /\ Published.data.event = DocumentedLifecycle[firing.a + 1].name
        /\ Published.data.detail =
               DocumentedLifecycle[firing.a + 1].details[firing.b + 1]

\* The enumeration lookups of the callbacks: the payload key a lookup fills,
\* the firing argument it reads and the size of its table.
Lookup(key, arg, size) == [key |-> key, arg |-> arg, size |-> size]

LookupsOf(callback) ==
    CASE callback = "domainEventLifecycleCallback" ->
           IF firing.a \in 0 .. Len(DocumentedLifecycle) - 1
           THEN {Lookup("detail", "b",
                        Len(DocumentedLifecycle[firing.a + 1].details))}
           ELSE {}
      [] callback = "domainEventWatchdogCallback" -> {Lookup("action", "a", 7)}
      [] callback = "domainEventIOErrorReasonCallback" ->
           {Lookup("action", "a", 3)}
      [] callback = "domainEventGraphicsCallback" -> {Lookup("phase", "a", 3)}
      [] callback = "domainEventDiskChangeCallback" ->
           {Lookup("reason", "a", 2)}
      [] callback = "domainEventTrayChangeCallback" ->
           {Lookup("reason", "a", 2)}
      [] callback = "domainEventBlockJobCallback" ->
           {Lookup("type", "a", 5), Lookup("status", "b", 4)}
      [] callback = "domainEventAgentLifecycleCallback" ->
           {Lookup("state", "a", 2), Lookup("reason", "b", 3)}
      [] callback = "domainEventMetadataChangeCallback" ->
           {Lookup("type", "a", 3)}
      [] callback = "networkEventLifecycleCallback" ->
           {Lookup("event", "a", 4), Lookup("detail", "b", 4)}
      [] OTHER -> {}

\* C2: every enumeration lookup of a callback resolves a code that is
\* negative or beyond the last index of its table to "unknown".
C2_OutOfRangeUnknown ==
    sent.fired =>
        \A l \in LookupsOf(FiredCallback) :
            firing[l.arg] \notin 0 .. l.size - 1 =>
                /\ sent.exc = ""
                /\ Len(sent.pub) = 1
                /\ Published.data[l.key] = "unknown"

\* C3: a lifecycle firing with any event code and any detail code ends
\* without an exception and publishes one payload, with event "unknown" and
\* detail "unknown" when the event code is not one of 0..8.
C3_LifecycleTotal ==
    (sent.fired /\ FiredCallback = "domainEventLifecycleCallback") =>
        /\ sent.exc = ""
        /\ Len(sent.pub) = 1
        /\ ~KnownLifecycleEvent =>
               /\ Published.data.event = "unknown"
               /\ Published.data.detail = "unknown"

(***************************************************************************)
(* start().  The libvirt module is the set of the attribute names it        *)
(* exposes; each of its VIR_*_EVENT_ID_* attributes is an integer.          *)
(***************************************************************************)
PyStr(name) == [kind |-> "str", v |-> name]
IntConst(name) == [kind |-> "int", v |-> name]

\* getattr(libvirt, name): "" when the attribute is found, else the
\* exception.  An attribute name that is not a str is a TypeError.
getattr(libvirt, name) ==
    IF name.kind # "str" THEN "TypeError"
    ELSE IF name.v \in libvirt THEN ""
    ELSE "AttributeError"

\* d[key] = value on a dict kept as the sequence of its items.
SetItem(items, item) ==
    IF \E i \in DOMAIN items : items[i].event = item.event
    THEN [i \in DOMAIN items |->
             IF items[i].event = item.event THEN item ELSE items[i]]
    ELSE Append(items, item)

\* A mutant of addCallback: the entry is added whether or not the binding
\* has the attribute.
addCallbackUnprobed(libvirt, cbs, obj, event, event_id, callback) ==
    [exc |-> "",
     callbacks |-> [cbs EXCEPT ![obj] =
         SetItem(@, [event |-> event, type |-> event_id,
                     callback |-> callback])]]

\* addCallback(obj, event, event_id, callback) on the callbacks dict cbs:
\* the exception that leaves it ("" if none) and the dict afterwards.
addCallback(libvirt, cbs, obj, event, event_id, callback) ==
    LET libvirt_id == getattr(libvirt, event_id) IN
    IF libvirt_id = "AttributeError"
    THEN [exc |-> "", callbacks |-> cbs]
    ELSE IF libvirt_id # ""
    THEN [exc |-> libvirt_id, callbacks |-> cbs]
    ELSE [exc |-> "",
          callbacks |-> [cbs EXCEPT ![obj] =
              SetItem(@, [event |-> event, type |-> event_id,
                          callback |-> callback])]]

\* A mutant of Selected: a filter naming the entity class alone selects too.
SelectedByClass(filterSet, obj, event_type) ==
    \/ join("/", <<obj, event_type>>) \in filterSet
    \/ obj \in filterSet
    \/ "all" \in filterSet

\* The test of the registration loop: event in filters or allFilters.
Selected(filterSet, obj, event_type) ==
    LET event == join("/", <<obj, event_type>>)
        allFilters == "all" \in filterSet
    IN  event \in filterSet \/ allFilters

\* The filters arguments start() is given.
FilterChoices == {
    {"all"},
    {"domain/lifecycle"},
    {"domain/lifecycle", "domain/reboot"},
    {"network/lifecycle"},
    {"domain"},
    {"domain/life", "lifecycle", "domain/lifecycle/"},
    {} }

RECURSIVE MissingSets(_)
\* The sets of at most k attribute names.
MissingSets(k) ==
    IF k = 0 THEN {{}}
    ELSE LET fewer == MissingSets(k - 1) IN
         fewer \cup {m \cup {id} : m \in fewer, id \in AllIds}

\* The bindings that lack at most k of the attributes start() looks up.
Bindings(k) == {AllIds \ m : m \in MissingSets(k)}

\* The iteration orders of the callbacks dict's keys.
ObjOrders == {<<"domain", "network">>, <<"network", "domain">>}

NoCall == [filter |-> "", type |-> PyStr(""), callback |-> "",
           opaque |-> Opaque("", "", "")]

\* start() is called.
Begin(k) ==
    /\ binding \in Bindings(k)
    /\ filters \in FilterChoices
    /\ objOrder \in ObjOrders
    /\ pc = "begin"
    /\ idx = 1
    /\ callbacks = [domain |-> << >>, network |-> << >>]
    /\ callbackIds = << >>
    /\ todo = << >>
    /\ cnx = "none"
    /\ atexitHandlers = << >>
    /\ proc = "running"
    /\ exc = ""
    /\ ranHandlers = << >>
    /\ cleanupPos = <<1, 1>>
    /\ calls = << >>
    /\ nextId = 1
    /\ firing = [i |-> 1, a |-> 0, b |-> 0]
    /\ sent = NotFired
    /\ DefaultArgs

Init == Begin(MaxMissing)

\* The worklist of the registration loop: the entries of the callbacks dict
\* in the order the two nested loops visit them.
Worklist(cbs, order) ==
    LET of(obj) == [i \in DOMAIN cbs[obj] |->
                       [obj |-> obj, event_type |-> cbs[obj][i].event,
                        callback |-> cbs[obj][i]]]
    IN  of(order[1]) \o of(order[2])

\* Lines 363-385: the connection is opened, cleanup is registered with
\* atexit, and the callbacks dict is created.
Open ==
    /\ proc = "running" /\ pc = "begin"
    /\ cnx' = "open"
    /\ atexitHandlers' = Append(atexitHandlers, "cleanup")
    /\ pc' = "add"
    /\ UNCHANGED <<binding, filters, objOrder, idx, callbacks, callbackIds,
                   todo, proc, exc, ranHandlers, cleanupPos, calls, nextId,
                   normVars>>

\* libvirt.openReadOnly raises: start() re-raises it as an Exception.
OpenRaises ==
    /\ proc = "running" /\ pc = "begin"
    /\ exc' = "libvirtError"
    /\ pc' = "raised"
    /\ UNCHANGED <<binding, filters, objOrder, idx, callbacks, callbackIds,
                   todo, cnx, atexitHandlers, proc, ranHandlers, cleanupPos,
                   calls, nextId, normVars>>

\* What start() does after its addCallback call number i has ended with
\* result r: on an exception start() raises, else it goes on to the next
\* call, and to the registration loop after the last one.
AfterAddCallback(i, r) ==
    /\ callbacks' = r.callbacks
    /\ exc' = r.exc
    /\ idx' = IF r.exc = "" THEN i + 1 ELSE i
    /\ pc' = IF r.exc # "" THEN "raised"
             ELSE IF i = NumCallbacks THEN "register" ELSE "add"
    /\ todo' = IF r.exc = "" /\ i = NumCallbacks
               THEN Worklist(r.callbacks, objOrder) ELSE todo

\* One of the addCallback calls that name the attribute (lines 398-436 and
\* 446-484).
AddCallbackStep ==
    /\ proc = "running" /\ pc = "add"
    /\ idx # BlockJobIndex
    /\ LET e == CallbackTable[idx] IN
       AfterAddCallback(idx, addCallback(binding, callbacks, e.obj, e.event,
                                         PyStr(e.id), e.callback))
    /\ UNCHANGED <<binding, filters, objOrder, callbackIds, cnx,
                   atexitHandlers, proc, ranHandlers, cleanupPos, calls,
                   nextId, normVars>>

\* Lines 439-444: blockJobId is the value of BLOCK_JOB_2, or else of
\* BLOCK_JOB; reading BLOCK_JOB from a binding that has neither raises
\* AttributeError outside addCallback.  addCallback is then given the value.
BlockJobStep ==
    /\ proc = "running" /\ pc = "add"
    /\ idx = BlockJobIndex
    /\ LET e == CallbackTable[idx] IN
       IF BLOCK_JOB_2 \in binding
       THEN AfterAddCallback(idx,
                addCallback(binding, callbacks, e.obj, e.event,
                            IntConst(BLOCK_JOB_2), e.callback))
       ELSE IF BLOCK_JOB \in binding
       THEN AfterAddCallback(idx,
                addCallback(binding, callbacks, e.obj, e.event,
                            IntConst(BLOCK_JOB), e.callback))
       ELSE AfterAddCallback(idx,
                [exc |-> "AttributeError", callbacks |-> callbacks])
    /\ UNCHANGED <<binding, filters, objOrder, callbackIds, cnx,
                   atexitHandlers, proc, ranHandlers, cleanupPos, calls,
                   nextId, normVars>>

(***************************************************************************)
(* The registration loop and the run loop (lines 489-517).  The connection  *)
(* is not part of this repository: a call on it returns or raises.          *)
(***************************************************************************)
Call(op, obj, h, ok, arg) ==
    [op |-> op, obj |-> obj, h |-> h, ok |-> ok, arg |-> arg]

\* callbackIds[obj].append(id), the key created when it is not there yet.
AppendId(ids, obj, id) ==
    IF \E k \in DOMAIN ids : ids[k].obj = obj
    THEN [k \in DOMAIN ids |->
             IF ids[k].obj = obj
             THEN [obj |-> obj, ids |-> Append(ids[k].ids, id)]
             ELSE ids[k]]
    ELSE Append(ids, [obj |-> obj, ids |-> <<id>>])

\* The arguments of the register call for worklist item w.
RegisterArgs(w, prefix) ==
    [filter |-> "None",
     type |-> w.callback.type,
     callback |-> w.callback.callback,
     opaque |-> Opaque(prefix, w.obj, w.event_type)]

\* One iteration of the registration loop: a selected entry is registered
\* and its handle kept, any other entry is passed over.
RegisterStep ==
    /\ proc = "running" /\ pc = "register"
    /\ todo # << >>
    /\ LET w == Head(todo) IN
       IF Selected(filters, w.obj, w.event_type)
       THEN /\ calls' = Append(calls, Call("register", w.obj, nextId, TRUE,
                                           RegisterArgs(w, tag_prefix)))
            /\ callbackIds' = AppendId(callbackIds, w.obj, nextId)
            /\ nextId' = nextId + 1
       ELSE UNCHANGED <<calls, callbackIds, nextId>>
    /\ todo' = Tail(todo)
    /\ UNCHANGED <<binding, filters, objOrder, pc, idx, callbacks, cnx,
                   atexitHandlers, proc, exc, ranHandlers, cleanupPos,
                   normVars>>

\* The register call of an iteration raises: start() re-raises it.
RegisterRaises ==
    /\ proc = "running" /\ pc = "register"
    /\ todo # << >>
    /\ LET w == Head(todo) IN
       /\ Selected(filters, w.obj, w.event_type)
       /\ calls' = Append(calls, Call("register", w.obj, 0, FALSE,
                                      RegisterArgs(w, tag_prefix)))
    /\ exc' = "libvirtError"
    /\ pc' = "raised"
    /\ UNCHANGED <<binding, filters, objOrder, idx, callbacks, callbackIds,
                   todo, cnx, atexitHandlers, proc, ranHandlers, cleanupPos,
                   nextId, normVars>>

\* A mutant of RegisterDone: the run loop is entered whether or not the
\* registration loop is over.
RegisterDoneEarly ==
    /\ proc = "running" /\ pc = "register"
    /\ atexitHandlers' = Append(atexitHandlers, "callbacksCleanup")
    /\ pc' = "run"
    /\ UNCHANGED <<binding, filters, objOrder, idx, callbacks, callbackIds,
                   todo, cnx, proc, exc, ranHandlers, cleanupPos, calls,
                   nextId, normVars>>

\* The loop is over: callbacksCleanup is registered with atexit and the run
\* loop is entered.
RegisterDone ==
    /\ proc = "running" /\ pc = "register"
    /\ todo = << >>
    /\ atexitHandlers' = Append(atexitHandlers, "callbacksCleanup")
    /\ pc' = "run"
    /\ UNCHANGED <<binding, filters, objOrder, idx, callbacks, callbackIds,
                   todo, cnx, proc, exc, ranHandlers, cleanupPos, calls,
                   nextId, normVars>>

\* A mutant of RunReturns: the loop ends when the call returns, and start()
\* returns.
RunReturnsAndLeaves ==
    /\ proc = "running" /\ pc = "run"
    /\ pc' = "returned"
    /\ UNCHANGED <<binding, filters, objOrder, idx, callbacks, callbackIds,
                   todo, cnx, atexitHandlers, proc, exc, ranHandlers,
                   cleanupPos, calls, nextId, normVars>>

\* libvirt.virEventRunDefaultImpl() returns: the loop calls it again.
RunReturns ==
    /\ proc = "running" /\ pc = "run"
    /\ UNCHANGED vars

\* libvirt.virEventRunDefaultImpl() raises: start() re-raises it.
RunRaises ==
    /\ proc = "running" /\ pc = "run"
    /\ exc' = "libvirtError"
    /\ pc' = "raised"
    /\ UNCHANGED <<binding, filters, objOrder, idx, callbacks, callbackIds,
                   todo, cnx, atexitHandlers, proc, ranHandlers, cleanupPos,
                   calls, nextId, normVars>>

\* The firings libvirt delivers while the run loop runs: lifecycle firings
\* of a domain (started/booted, then an event code past the table), a
\* reboot, and a lifecycle firing of a network.
RunFirings == {
    [i |-> 1, a |-> 2, b |-> 1],
    [i |-> 1, a |-> 9, b |-> 0],
    [i |-> 2, a |-> 0, b |-> 0],
    [i |-> NumCallbacks, a |-> 2, b |-> 0] }

\* Register call number n returned, and the subscription it made is the one
\* firing f belongs to.
Subscribed(n, f) ==
    /\ calls[n].op = "register" /\ calls[n].ok
    /\ calls[n].obj = CallbackTable[f.i].obj
    /\ calls[n].arg.type.v = CallbackTable[f.i].id

\* The call libvirt makes for firing f of that subscription: the callback
\* and the opaque dict are those start() gave to register.
Deliver(n, f) ==
    IF calls[n].obj = "domain"
    THEN CallDomain(calls[n].arg.callback, cnxURI, TheDom, f.a, f.b,
                    calls[n].arg.opaque)
    ELSE CallNetwork(calls[n].arg.callback, cnxURI, TheNet, f.a, f.b,
                     calls[n].arg.opaque)

\* libvirt.virEventRunDefaultImpl() delivers a firing and returns: the
\* callback ran to its end, or raised and libvirt went on.  Nothing in this
\* file catches what a callback raises; what libvirt does with it is not
\* decided here, so both outcomes are steps (see RunDispatchRaises).
RunDispatches ==
    /\ proc = "running" /\ pc = "run"
    /\ Len(delivered) < MaxFirings
    /\ \E f \in RunFirings : \E n \in DOMAIN calls :
           /\ Subscribed(n, f)
           /\ firing' = f
           /\ sent' = Done(Deliver(n, f))
           /\ delivered' = Append(delivered, f)
           /\ bus' = bus \o sent'.pub
    /\ UNCHANGED <<startVars, cnxURI, tag_prefix>>

\* libvirt.virEventRunDefaultImpl() delivers a firing, the callback raises,
\* and the exception comes out of virEventRunDefaultImpl(): start()
\* re-raises it.
RunDispatchRaises ==
    /\ proc = "running" /\ pc = "run"
    /\ Len(delivered) < MaxFirings
    /\ \E f \in RunFirings : \E n \in DOMAIN calls :
           /\ Subscribed(n, f)
           /\ firing' = f
           /\ sent' = Done(Deliver(n, f))
           /\ sent'.exc # ""
           /\ delivered' = Append(delivered, f)
           /\ bus' = bus \o sent'.pub
           /\ exc' = sent'.exc
    /\ pc' = "raised"
    /\ UNCHANGED <<binding, filters, objOrder, idx, callbacks, callbackIds,
                   todo, cnx, atexitHandlers, proc, ranHandlers, cleanupPos,
                   calls, nextId, cnxURI, tag_prefix>>

(***************************************************************************)
(* The end of the process.  The interpreter runs the atexit handlers, last  *)
(* registered first, when it exits; a handler that raises does not stop the *)
(* handlers after it.  A process killed by a signal Python does not handle  *)
(* runs none.                                                               *)
(***************************************************************************)
\* The Exception start() raised has reached the top: the interpreter exits.
ExitAfterRaise ==
    /\ proc = "running" /\ pc = "raised"
    /\ proc' = "exiting"
    /\ UNCHANGED <<binding, filters, objOrder, pc, idx, callbacks,
                   callbackIds, todo, cnx, atexitHandlers, exc, ranHandlers,
                   cleanupPos, calls, nextId, normVars>>

\* KeyboardInterrupt or SystemExit is raised inside start(): neither is an
\* Exception, so the except clause lets it through and the interpreter exits.
Interrupt ==
    /\ proc = "running" /\ pc \in {"begin", "add", "register", "run"}
    /\ exc' = "KeyboardInterrupt"
    /\ proc' = "exiting"
    /\ UNCHANGED <<binding, filters, objOrder, pc, idx, callbacks,
                   callbackIds, todo, cnx, atexitHandlers, ranHandlers,
                   cleanupPos, calls, nextId, normVars>>

\* The process is killed by a signal Python does not handle.
Kill ==
    /\ proc \in {"running", "exiting"}
    /\ proc' = "killed"
    /\ UNCHANGED <<binding, filters, objOrder, pc, idx, callbacks,
                   callbackIds, todo, cnx, atexitHandlers, exc, ranHandlers,
                   cleanupPos, calls, nextId, normVars>>

\* The handler atexit runs next.
NextHandler == atexitHandlers[Len(atexitHandlers)]

\* atexit is done with its current handler.
HandlerEnds ==
    /\ atexitHandlers' = SubSeq(atexitHandlers, 1, Len(atexitHandlers) - 1)
    /\ ranHandlers' = Append(ranHandlers, NextHandler)

\* cleanup(): the connection is closed.
AtexitCleanup ==
    /\ proc = "exiting"
    /\ atexitHandlers # << >> /\ NextHandler = "cleanup"
    /\ calls' = Append(calls, Call("close", "", 0, TRUE, NoCall))
    /\ cnx' = "closed"
    /\ HandlerEnds
    /\ UNCHANGED <<binding, filters, objOrder, pc, idx, callbacks,
                   callbackIds, todo, proc, exc, cleanupPos, nextId,
                   normVars>>

\* callbacksCleanup() is at callbackIds key number k, id number j.
CleanupKey == cleanupPos[1]
CleanupId == cleanupPos[2]

\* The position after <<k, j>> in the two nested loops of callbacksCleanup.
Advance(ids, k, j) == IF j < Len(ids[k].ids) THEN <<k, j + 1>> ELSE <<k + 1, 1>>

\* callbacksCleanup(): one deregister call, which returns.
DeregisterOk ==
    /\ proc = "exiting"
    /\ atexitHandlers # << >> /\ NextHandler = "callbacksCleanup"
    /\ CleanupKey <= Len(callbackIds)
    /\ calls' = Append(calls,
           Call("deregister", callbackIds[CleanupKey].obj,
                callbackIds[CleanupKey].ids[CleanupId], TRUE, NoCall))
    /\ cleanupPos' = Advance(callbackIds, CleanupKey, CleanupId)
    /\ UNCHANGED <<binding, filters, objOrder, pc, idx, callbacks,
                   callbackIds, todo, cnx, atexitHandlers, proc, exc,
                   ranHandlers, nextId, normVars>>

\* callbacksCleanup(): one deregister call, which raises.  Nothing in
\* callbacksCleanup catches it: the handler ends there.
DeregisterRaises ==
    /\ proc = "exiting"
    /\ atexitHandlers # << >> /\ NextHandler = "callbacksCleanup"
    /\ CleanupKey <= Len(callbackIds)
    /\ calls' = Append(calls,
           Call("deregister", callbackIds[CleanupKey].obj,
                callbackIds[CleanupKey].ids[CleanupId], FALSE, NoCall))
    /\ HandlerEnds
    /\ UNCHANGED <<binding, filters, objOrder, pc, idx, callbacks,
                   callbackIds, todo, cnx, proc, exc, cleanupPos, nextId,
                   normVars>>

\* callbacksCleanup() has gone through callbackIds and returns.
CallbacksCleanupReturns ==
    /\ proc = "exiting"
    /\ atexitHandlers # << >> /\ NextHandler = "callbacksCleanup"
    /\ CleanupKey > Len(callbackIds)
    /\ HandlerEnds
    /\ UNCHANGED <<binding, filters, objOrder, pc, idx, callbacks,
                   callbackIds, todo, cnx, proc, exc, cleanupPos, calls,
                   nextId, normVars>>

\* Every atexit handler has run: the process is gone.
ExitDone ==
    /\ proc = "exiting"
    /\ atexitHandlers = << >>
    /\ proc' = "exited"
    /\ UNCHANGED <<binding, filters, objOrder, pc, idx, callbacks,
                   callbackIds, todo, cnx, atexitHandlers, exc, ranHandlers,
                   cleanupPos, calls, nextId, normVars>>

\* start() from its first line, and the end of the process.  No behaviour
\* gets past the block-job step (see StartStopsAtBlockJob), so the steps of
\* the registration loop and of the run loop are not steps of Next.
Next ==
    \/ Open
    \/ OpenRaises
    \/ AddCallbackStep
    \/ BlockJobStep
    \/ ExitAfterRaise
    \/ Interrupt
    \/ Kill
    \/ AtexitCleanup
    \/ ExitDone

Spec == Init /\ [][Next]_vars

RECURSIVE Built(_, _, _)
\* The callbacks dict after the addCallback calls number i and later that
\* name their attribute, made on the dict cbs.
Built(libvirt, i, cbs) ==
    IF i > NumCallbacks THEN cbs
    ELSE IF i = BlockJobIndex THEN Built(libvirt, i + 1, cbs)
    ELSE Built(libvirt, i + 1,
               addCallback(libvirt, cbs, CallbackTable[i].obj,
                           CallbackTable[i].event, PyStr(CallbackTable[i].id),
                           CallbackTable[i].callback).callbacks)

\* start() at line 489, with the callbacks dict that the addCallback calls
\* naming their attribute build from the binding.
InitActivate ==
    /\ binding \in Bindings(MaxMissingActivate)
    /\ filters \in FilterChoices
    /\ objOrder \in ObjOrders
    /\ pc = "register"
    /\ idx = NumCallbacks + 1
    /\ callbacks = Built(binding, 1, [domain |-> << >>, network |-> << >>])
    /\ callbackIds = << >>
    /\ todo = Worklist(callbacks, objOrder)
    /\ cnx = "open"
    /\ atexitHandlers = <<"cleanup">>
    /\ proc = "running"
    /\ exc = ""
    /\ ranHandlers = << >>
    /\ cleanupPos = <<1, 1>>
    /\ calls = << >>
    /\ nextId = 1
    /\ firing = [i |-> 1, a |-> 0, b |-> 0]
    /\ sent = NotFired
    /\ DefaultArgs

NextActivate ==
    \/ RegisterStep
    \/ RegisterRaises
    \/ RegisterDone
    \/ RunReturns
    \/ RunRaises
    \/ ExitAfterRaise
    \/ Interrupt
    \/ Kill
    \/ DeregisterOk
    \/ DeregisterRaises
    \/ CallbacksCleanupReturns
    \/ AtexitCleanup
    \/ ExitDone

\* The registration loop, the run loop and the end of the process, from
\* every callbacks dict within the bounds.  libvirt delivers no firing here
\* (see SpecRun): virEventRunDefaultImpl() returns or raises.
SpecActivate == InitActivate /\ [][NextActivate]_vars

\* start() at line 489 on a binding that has every attribute.
InitRun == InitActivate /\ binding = AllIds

NextRun ==
    \/ NextActivate
    \/ RunDispatches
    \/ RunDispatchRaises

\* The registration loop, the run loop with the firings libvirt delivers,
\* and the end of the process.
SpecRun == InitRun /\ [][NextRun]_vars

(***************************************************************************)
(* Properties of start() from its first line, under Spec.                   *)
(***************************************************************************)
\* Under Spec start() never reaches its registration loop: the block-job
\* step always raises.
StartStopsAtBlockJob == pc \notin {"register", "run"} /\ idx <= BlockJobIndex

\* start() is past its addCallback call number i, or raised in it.
Probed(i) ==
    \/ i < idx
    \/ i = idx /\ pc = "raised" /\ exc \in {"TypeError", "AttributeError"}

\* The binding lacks the attribute of table entry i: both forms, for the
\* block-job entry.
Absent(i) ==
    IF i = BlockJobIndex
    THEN BLOCK_JOB \notin binding /\ BLOCK_JOB_2 \notin binding
    ELSE CallbackTable[i].id \notin binding

\* The callbacks dict has table entry i.
InCallbacks(i) ==
    \E n \in DOMAIN callbacks[CallbackTable[i].obj] :
        callbacks[CallbackTable[i].obj][n].event = CallbackTable[i].event

\* start() raised in its addCallback call number i.
RaisedAt(i) == pc = "raised" /\ idx = i /\ Probed(i)

\* The block-job form start() is to use: the newer one when it exists.
PreferredBlockJob == IF BLOCK_JOB_2 \in binding THEN BLOCK_JOB_2 ELSE BLOCK_JOB

\* C4: when the binding has a block-job attribute (BLOCK_JOB alone, or both
\* forms), the block-job step adds the entry "block job" to the callbacks
\* dict, for the _2 form when both exist, and start() goes on to the
\* addCallback calls after it.
C4_BlockJobFallback ==
    (Probed(BlockJobIndex) /\ ~Absent(BlockJobIndex)) =>
        /\ ~RaisedAt(BlockJobIndex)
        /\ \E n \in DOMAIN callbacks.domain :
               /\ callbacks.domain[n].event = "block job"
               /\ callbacks.domain[n].type.v = PreferredBlockJob

\* C5: an entry of the table whose attribute the binding lacks (for block
\* job: lacks in both forms) is left out of the callbacks dict, start() does
\* not raise in its addCallback call, and goes on.
C5_MissingSkipped ==
    \A i \in 1 .. NumCallbacks :
        (Probed(i) /\ Absent(i)) => (~InCallbacks(i) /\ ~RaisedAt(i))

(***************************************************************************)
(* Properties of the registration loop and of the end of the process,       *)
(* under SpecActivate.                                                      *)
(***************************************************************************)
Range(seq) == {seq[n] : n \in DOMAIN seq}

\* The register calls made on the connection, and those that returned.
RegisterCalls == {n \in DOMAIN calls : calls[n].op = "register"}
Registrations == {n \in RegisterCalls : calls[n].ok}

\* The handles of the subscriptions start() has activated.
Handles == {calls[n].h : n \in Registrations}

\* The deregister calls made for handle h.
DeregisterCalls(h) ==
    {n \in DOMAIN calls : calls[n].op = "deregister" /\ calls[n].h = h}

\* The entries the probe found: those of the callbacks dict.
CapableSpecs ==
    {<<obj, callbacks[obj][n].event>> :
        obj \in {"domain"}, n \in DOMAIN callbacks.domain}
    \cup {<<obj, callbacks[obj][n].event>> :
        obj \in {"network"}, n \in DOMAIN callbacks.network}

\* The entries start() has registered.
RegisteredSpecs ==
    {<<calls[n].obj, calls[n].arg.opaque.event>> : n \in Registrations}

\* C6: every register call made on the connection is for an entry of the
\* table whose attribute the binding has, names that attribute, and is for
\* an entry whose "<obj>/<event>" is in filters unless filters has "all".
C6_RegisteredCapableAndSelected ==
    \A n \in RegisterCalls :
        /\ \E i \in (1 .. NumCallbacks) \ {BlockJobIndex} :
               /\ CallbackTable[i].obj = calls[n].obj
               /\ CallbackTable[i].event = calls[n].arg.opaque.event
               /\ CallbackTable[i].callback = calls[n].arg.callback
               /\ CallbackTable[i].id = calls[n].arg.type.v
               /\ CallbackTable[i].id \in binding
        /\ calls[n].arg.type.v \in binding
        /\ \/ "all" \in filters
           \/ (calls[n].obj \o "/" \o calls[n].arg.opaque.event) \in filters

\* C6's case: the binding lacks "reboot", filters asks for lifecycle and
\* reboot, and the loop has registered the one it could.
C6_Witness ==
    /\ pc = "run"
    /\ "VIR_DOMAIN_EVENT_ID_REBOOT" \notin binding
    /\ filters = {"domain/lifecycle", "domain/reboot"}
    /\ RegisteredSpecs = {<<"domain", "lifecycle">>}

Active ==
    /\ "callbacksCleanup" \in Range(atexitHandlers) \cup Range(ranHandlers)
    /\ Handles # {}

\* C8: once callbacksCleanup has run, deregister has been called exactly
\* once for every activated handle, whether or not a call raised.
C8_DeregisterEachOnce ==
    "callbacksCleanup" \in Range(ranHandlers) =>
        \A h \in Handles : Cardinality(DeregisterCalls(h)) = 1

\* C9: when the process is gone after start() had subscriptions active,
\* callbacksCleanup and then cleanup have run, each once, however the
\* process ended.
C9_ShutdownOnce ==
    (proc \in {"exited", "killed"} /\ Active) =>
        ranHandlers = <<"callbacksCleanup", "cleanup">>

\* The close call of the connection, if any, is call number n.
ClosedAt(n) == n \in DOMAIN calls /\ calls[n].op = "close"

\* C10: the connection is closed only after deregister has been called for
\* every activated handle, no deregister call comes after the close, and a
\* process that exits after a deregister call raised has closed the
\* connection.
C10_CloseAfterDeregister ==
    /\ (cnx = "closed" /\ Active) =>
           \A h \in Handles : DeregisterCalls(h) # {}
    /\ \A n \in DOMAIN calls : \A m \in DOMAIN calls :
           (ClosedAt(n) /\ calls[m].op = "deregister") => m < n
    /\ (proc = "exited" /\ \E n \in DOMAIN calls :
                              calls[n].op = "deregister" /\ ~calls[n].ok)
           => cnx = "closed"

(***************************************************************************)
(* Properties of the run loop, under SpecRun.                               *)
(***************************************************************************)
\* C11: a step that start() takes from its run loop either stays in the run
\* loop with no exception, or is virEventRunDefaultImpl() raising, after
\* which start() has raised an Exception made from that cause and stays
\* raised; start() never returns.
C11_RunLoopLeavesOnlyByError ==
    [][/\ (proc = "running" /\ pc = "run" /\ proc' = "running") =>
              \/ pc' = "run" /\ exc' = ""
              \/ /\ pc' = "raised"
                 /\ exc' \in {"libvirtError", sent'.exc} \ {""}
       /\ (pc = "raised" /\ "callbacksCleanup" \in Range(atexitHandlers)) =>
              (pc' = "raised" /\ exc' = exc)
       /\ pc' # "returned"]_vars

\* C11's case: virEventRunDefaultImpl() returned after a firing, was called
\* again and raised, and start() has raised from its run loop.
C11_Witness ==
    /\ pc = "raised" /\ exc = "libvirtError"
    /\ proc = "running"
    /\ "callbacksCleanup" \in Range(atexitHandlers)
    /\ delivered # << >>

\* The topic of the firings of table entry i, for the default arguments.
DefaultTopic(i) ==
    DefaultPrefix \o "/qemu/system/" \o CallbackTable[i].obj \o "/"
        \o CallbackTable[i].event

\* C13: the events handed to the salt event bus are, one for one and in
\* order, those of the firings the run loop has delivered: as many events
\* as firings, the k-th event being the one of the k-th firing.
C13_OnePublishPerFiring ==
    /\ Len(bus) = Len(delivered)
    /\ \A k \in DOMAIN bus :
           /\ k \in DOMAIN delivered
           /\ bus[k].tag = DefaultTopic(delivered[k].i)

(***************************************************************************)
(* Properties of the topic and of the payload, under SpecTopic.             *)
(***************************************************************************)
\* The topic the grammar gives for prefix, the URI parts p, obj and event:
\* the parts that are not empty, joined by single slashes.
GrammarTopic(prefix, p, obj, event) ==
    prefix \o "/" \o p.scheme.s
        \o (IF p.authority.s # "" THEN "/" \o p.authority.s ELSE "")
        \o (IF p.path.s # "" THEN "/" \o p.path.s ELSE "")
        \o "/" \o obj \o "/" \o event

\* C14: the topic of a published event is prefix/scheme[/authority][/path]/
\* class/event, the path without its leading and trailing slashes, an empty
\* authority or path giving no segment and no doubled slash.
C14_TopicGrammar ==
    sent.fired =>
        /\ Len(sent.pub) = 1
        /\ \A p \in UriParts :
               ComposeURI(p) = cnxURI =>
                   Published.tag =
                       GrammarTopic(tag_prefix, p, CallbackTable[firing.i].obj,
                                    CallbackTable[firing.i].event)

\* C14's case: qemu:///system with the default prefix, for domain/lifecycle.
C14_Witness ==
    /\ sent.fired
    /\ cnxURI = Chars_qemu_system
    /\ tag_prefix = DefaultPrefix
    /\ Published.tag =
           "salt/engines/libvirt_events/qemu/system/domain/lifecycle"

(***************************************************************************)
(* Properties of the payload, under SpecNorm.                               *)
(***************************************************************************)
\* C15: the payload of a published event has the key uri with the
\* connection's URI as start() was given it, the key event (the entry's
\* event name, for every callback but the two lifecycle ones, which
\* resolve it from the event code), and domain = {name, id} for a domain
\* callback or network = name for the network callback.
C15_CommonPayload ==
    (sent.fired /\ sent.pub # << >>) =>
        /\ {"uri", "event"} \subseteq DOMAIN Published.data
        /\ Published.data.uri = "qemu:///system"
        /\ FiredCallback \notin {"domainEventLifecycleCallback",
                                "networkEventLifecycleCallback"}
               => Published.data.event = CallbackTable[firing.i].event
        /\ IF CallbackTable[firing.i].obj = "domain"
           THEN /\ "domain" \in DOMAIN Published.data
                /\ Published.data.domain = [name |-> "vm1", id |-> 7]
                /\ "network" \notin DOMAIN Published.data
           ELSE /\ "network" \in DOMAIN Published.data
                /\ Published.data.network = "net1"
                /\ "domain" \notin DOMAIN Published.data

\* C15's case: a block-job firing, whose own fields (disk, type, status)
\* sit in the payload next to uri, event and domain.
C15_Witness ==
    /\ sent.fired /\ sent.pub # << >>
    /\ FiredCallback = "domainEventBlockJobCallback"
    /\ DOMAIN Published.data =
           {"uri", "event", "domain", "disk", "type", "status"}
    /\ Published.data.type = "pull"

(***************************************************************************)
(* More properties of the registration loop, under SpecActivate.            *)
(***************************************************************************)
\* A register call raised after one or more register calls had returned.
RegisterFailedMidway ==
    /\ \E n \in RegisterCalls : ~calls[n].ok
    /\ Handles # {}

\* C16: when a register call raises after others returned, start() raises,
\* and by the time the connection is closed at exit deregister has been
\* called once for every handle the earlier calls returned.
C16_FailedActivationDeregisters ==
    RegisterFailedMidway =>
        /\ pc = "raised" /\ exc # ""
        /\ cnx = "closed" =>
               \A h \in Handles : Cardinality(DeregisterCalls(h)) = 1

\* C17: every register call is given None as its filter, the integer that
\* the binding's attribute of the entry holds (not the attribute's name) as
\* its event id, and an opaque dict with start()'s prefix and the obj and
\* event of that same entry.
C17_RegisterArguments ==
    \A n \in RegisterCalls :
        /\ calls[n].arg.filter = "None"
        /\ calls[n].arg.type.kind = "int"
        /\ \E i \in 1 .. NumCallbacks :
               /\ CallbackTable[i].id = calls[n].arg.type.v
               /\ CallbackTable[i].id \in binding
               /\ calls[n].arg.opaque =
                      Opaque(tag_prefix, CallbackTable[i].obj,
                             CallbackTable[i].event)

(***************************************************************************)
(* The start of the run loop, under SpecRun.                                *)
(***************************************************************************)
\* The entries of the callbacks dict that filters selects.
SelectedSpecs ==
    {sp \in CapableSpecs :
        "all" \in filters \/ (sp[1] \o "/" \o sp[2]) \in filters}

\* C18: start() enters its run loop once, from its registration loop and
\* never back; while it is in the run loop, and whenever a firing has been
\* delivered or an event published, the register call of every selected
\* entry has returned; and when virEventRunDefaultImpl() is called both
\* cleanup and callbacksCleanup are registered with atexit.
C18_RunsAfterAllRegistered ==
    /\ [](/\ (pc = "run" \/ delivered # << >> \/ bus # << >>) =>
                 /\ todo = << >>
                 /\ RegisteredSpecs = SelectedSpecs
                 /\ Registrations = RegisterCalls
          /\ (pc = "run" /\ proc = "running") =>
                 atexitHandlers = <<"cleanup", "callbacksCleanup">>)
    /\ [][/\ pc = "run" => pc' \in {"run", "raised"}
          /\ (pc # "run" /\ pc' = "run") => pc = "register"]_vars

\* C18's case: with filters ["all"] every entry is registered, the run loop
\* is running and has published the event of a firing.
C18_Witness ==
    /\ pc = "run" /\ proc = "running"
    /\ filters = {"all"}
    /\ Cardinality(Registrations) = NumCallbacks - 1
    /\ delivered # << >> /\ bus # << >>

(***************************************************************************)
(* The graphics callback, under SpecNorm.                                   *)
(***************************************************************************)
\* The names libvirt documents for the address families and the phases.
FamilyName(code) ==
    CASE code = 0 -> "ipv4" [] code = 1 -> "ipv6" [] code = 2 -> "unix"
      [] OTHER -> "unknown"
PhaseName(code) ==
    CASE code = 0 -> "connect" [] code = 1 -> "initialize"
      [] code = 2 -> "disconnect" [] OTHER -> "unknown"

\* C19: a graphics firing publishes phase as its name, and local and remote
\* as dicts of the family's name, the node, and the service when the
\* address has one; the address object libvirt passed is not in the
\* payload.
C19_GraphicsNormalized ==
    (sent.fired /\ FiredCallback = "domainEventGraphicsCallback") =>
        /\ sent.exc = "" /\ Len(sent.pub) = 1
        /\ Published.data.phase = PhaseName(firing.a)
        /\ Published.data.local =
               [family |-> FamilyName(firing.b), node |-> "10.0.0.1",
                service |-> "5900"]
        /\ Published.data.remote =
               [family |-> FamilyName(firing.b), node |-> "10.0.0.1"]

====
